---- MODULE Spec2Model ----
(***************************************************************************)
(* A model of trunk/scripts/heatmap30320111008.py: GenerateHeatMap and     *)
(* Execute.  One run of GenerateHeatMap is a sequence of steps: one per    *)
(* line of the event file (the aggregation loop), the creation of the      *)
(* canvas, one per unique location (the stamping loop), negate, gradient   *)
(* remap and blend.                                                        *)
(*                                                                         *)
(* Text is a sequence of one-character strings, so that a line as read     *)
(* (terminator included) is what keys uniqueLocations.  Numbers that the   *)
(* script holds as floats are exact rationals <<n, d>> with d > 0, in      *)
(* lowest terms: the rounding of float arithmetic and of the "%g" that     *)
(* prints the colorize percentage is left out.  Images are sampled at the  *)
(* pixels of Pixels.  A command that does not exit with status 0 leaves    *)
(* the file it was to write as it was.                                     *)
(***************************************************************************)
EXTENDS Integers, Sequences, FiniteSets

\* ------------------------------------------------------------- bounds

\* The longest event file, in lines.
MaxLines == 3

\* ---------------------------------------------------------- rationals

RECURSIVE GCD(_, _)
GCD(a, b) == IF b = 0 THEN a ELSE GCD(b, a % b)

Abs(n) == IF n < 0 THEN -n ELSE n

\* n/d in lowest terms with a positive denominator (d # 0).
Rat(n, d) ==
  LET g == GCD(Abs(n), Abs(d))
      s == IF d < 0 THEN -1 ELSE 1
  IN  <<(s * n) \div g, (s * d) \div g>>

RAdd(a, b) == Rat(a[1] * b[2] + b[1] * a[2], a[2] * b[2])
RSub(a, b) == Rat(a[1] * b[2] - b[1] * a[2], a[2] * b[2])
RMul(a, b) == Rat(a[1] * b[1], a[2] * b[2])
RLt(a, b) == a[1] * b[2] < b[1] * a[2]
RLe(a, b) == a[1] * b[2] <= b[1] * a[2]

RZero == <<0, 1>>
ROne == <<1, 1>>

\* ---------------------------------------------------------------- text

Digits == {"0", "1", "2", "3", "4", "5", "6", "7", "8", "9"}
Whitespace == {" ", "\n"}

DigitValue(c) ==
  CASE c = "0" -> 0 [] c = "1" -> 1 [] c = "2" -> 2 [] c = "3" -> 3
    [] c = "4" -> 4 [] c = "5" -> 5 [] c = "6" -> 6 [] c = "7" -> 7
    [] c = "8" -> 8 [] c = "9" -> 9

\* str.split(","): the fields between the commas, in order.
RECURSIVE Split(_)
Split(s) ==
  IF \A i \in 1..Len(s) : s[i] # ","
  THEN <<s>>
  ELSE LET k == CHOOSE i \in 1..Len(s) :
                  s[i] = "," /\ \A j \in 1..(i - 1) : s[j] # ","
       IN  <<SubSeq(s, 1, k - 1)>> \o Split(SubSeq(s, k + 1, Len(s)))

\* str.strip() as int() applies it: leading and trailing whitespace removed.
RECURSIVE Strip(_)
Strip(s) ==
  IF s = <<>> THEN s
  ELSE IF s[1] \in Whitespace THEN Strip(Tail(s))
  ELSE IF s[Len(s)] \in Whitespace THEN Strip(SubSeq(s, 1, Len(s) - 1))
  ELSE s

RECURSIVE DecimalValue(_)
DecimalValue(s) ==
  IF s = <<>> THEN 0
  ELSE 10 * DecimalValue(SubSeq(s, 1, Len(s) - 1)) + DigitValue(s[Len(s)])

IsDecimal(s) == s # <<>> /\ \A i \in 1..Len(s) : s[i] \in Digits

\* The digits int(s) reads: s without its whitespace and its sign.
Unsigned(s) ==
  LET t == Strip(s)
  IN  IF t # <<>> /\ t[1] \in {"+", "-"} THEN Tail(t) ELSE t

\* Whether int(s) returns rather than raises ValueError: whitespace
\* stripped, an optional sign, then decimal digits.
IsInt(s) == IsDecimal(Unsigned(s))

\* int(s), where it returns.
ParseInt(s) ==
  LET t == Strip(s)
  IN  IF t[1] = "-" THEN -DecimalValue(Unsigned(s))
      ELSE DecimalValue(Unsigned(s))

\* ------------------------------------------------------------- inputs

NL == <<"\n">>

\* The location texts the event files are made of.  The first two are
\* distinct texts with the same placement (x/2 and y/2 round down), the
\* third lies left of and above the canvas, the last has no comma.
LocTexts ==
  { <<"6", "4", ",", "1", "2", "8">>,
    <<"6", "5", ",", "1", "2", "9">>,
    <<"-", "9", ",", "3", "0", "0">>,
    <<"7">> }

\* The lines a file of n location texts is read as: each line keeps its
\* terminator, and only the last line of a file may lack one.
FilesOfLength(n) ==
  IF n = 0 THEN {<<>>}
  ELSE { [i \in 1..n |-> IF i < n \/ term THEN body[i] \o NL ELSE body[i]] :
           body \in [1..n -> LocTexts], term \in BOOLEAN }

EventFiles == UNION { FilesOfLength(n) : n \in 0..MaxLines }

\* scale = float(argv[4]): any float, 1.0 when absent.
Scales == { <<-1, 1>>, <<1, 2>>, <<1, 1>>, <<2, 1>> }

CanvasSizes == { <<"1", "2", "8">> }

\* spot.png as a uniform grey of one of these levels (0 black, 1 white).
SpotLevels == { <<0, 1>>, <<1, 2>> }

\* The exit status subprocess.call returns: 0, a failure status, or the
\* negated number of the signal that ended the child.
ExitCodes == { 0, 1, -9 }

\* The pixels at which the images are sampled.
Pixels == { <<0, 0>>, <<10, 40>>, <<63, 95>>, <<64, 96>> }

\* ------------------------------------------------------- program constants

\* "Spot image is 64x64, so center it".
SpotSize == 64
HalfSpot == 32

\* ---------------------------------------------------------------- state

VARIABLES
  event_file,       \* the lines of the event file, as read
  canvas_size_x,    \* argv[2], text
  canvas_size_y,    \* argv[3], text
  scale,            \* the scale argument, a rational
  spot,             \* the grey level of spot.png
  hdri,             \* whether ImageMagick is built with HDRI (no clamping)
  pc,               \* the step GenerateHeatMap is at
  pos,              \* lines of event_file consumed by the aggregation loop
  uniqueLocations,  \* dict: line as read -> count
  maxRepetitions,
  pending,          \* keys the stamping loop has still to iterate
  ten_percent,
  count,
  percent,
  empty_miff,       \* the files convert and composite write
  full_miff,
  final_miff,
  heatmap_png,
  err,              \* the exception that ended the run, or "none"
  invoked,          \* history: Execute calls per stage
  visited,          \* history: iterations of the stamping loop per key
  stamps,           \* history: per key, the whitening factors stamped
  statuses,         \* history: the exit statuses Execute has seen
  divisors          \* history: the divisors weight was divided by

inputs == <<event_file, canvas_size_x, canvas_size_y, scale, spot, hdri>>
aggregate == <<pos, uniqueLocations, maxRepetitions>>
loop == <<pending, ten_percent, count, percent>>
files == <<empty_miff, full_miff, final_miff, heatmap_png>>
history == <<invoked, visited, stamps, statuses, divisors>>
vars == <<inputs, pc, aggregate, loop, files, err, history>>

\* ---------------------------------------------------------------- images

\* A file that does not exist: an image of no pixels.
Absent == [p \in {} |-> RZero]

\* pattern:gray100: every pixel white.
White == [p \in Pixels |-> ROne]

\* What a previous run may have left behind in a file.
Stale == [p \in Pixels |-> RZero]

Clamp(v) == IF RLt(v, RZero) THEN RZero ELSE IF RLt(ROne, v) THEN ROne ELSE v

\* A pixel value as the build stores it: clamped to [0, 1] unless HDRI.
Store(v, floating) == IF floating THEN v ELSE Clamp(v)

\* -fill white -colorize c*100%: the pixel blended with white by c.
Colorize(v, c, floating) ==
  Store(RAdd(RMul(v, RSub(ROne, c)), c), floating)

\* -geometry x_str + y_str: the marker covers SpotSize pixels from (x, y).
Covers(x, y, p) ==
  /\ x <= p[1] /\ p[1] < x + SpotSize
  /\ y <= p[2] /\ p[2] < y + SpotSize

\* -compose multiply -composite: under the marker the canvas pixel times
\* the marker's pixel, elsewhere the canvas pixel.
Composite(canvas, marker, x, y, floating) ==
  [p \in Pixels |->
     IF Covers(x, y, p) THEN Store(RMul(canvas[p], marker), floating)
     ELSE canvas[p]]

\* -negate
Negate(image) == [p \in Pixels |-> RSub(ROne, image[p])]

\* -fx 'v.p{0,u*v.h}' with colors.png: the colour is the gradient row the
\* intensity selects; rows outside the gradient read its edge.
GradientRows == 5
Remap(image) ==
  [p \in Pixels |->
     LET row == (image[p][1] * GradientRows) \div image[p][2]
     IN  IF row < 0 THEN 0
         ELSE IF row > GradientRows - 1 THEN GradientRows - 1 ELSE row]

\* composite -blend 40% final.miff level_image: each pixel the blend of
\* the heat colour with the background's.
Blend(image) == [p \in Pixels |-> <<image[p], "40%", "level_image">>]

\* ----------------------------------------------------------- aggregation

\* Key with the line trimmed before it is counted.
KeyStripped(line) == Strip(line)

\* The key a line is counted under: "for location in file" yields the line
\* as read, terminator included, and nothing trims it.
Key(line) == line

\* Count without the increment of a location already present.
CountFirstOnly(locations, location) ==
  [k \in DOMAIN locations \cup {location} |->
     IF k = location THEN 1 ELSE locations[k]]

\* The dict after one more line: 1 on the first reference, else one more.
Count(locations, location) ==
  IF location \notin DOMAIN locations
  THEN [k \in DOMAIN locations \cup {location} |->
          IF k = location THEN 1 ELSE locations[k]]
  ELSE [locations EXCEPT ![location] = @ + 1]

\* Hottest updated by the first reference only.
HottestFirstOnly(max, n) == IF max = 0 THEN n ELSE max

\* Hottest never updated.
HottestNever(max, n) == max

\* maxRepetitions after a line whose location now counts n.
Hottest(max, n) == IF n > max THEN n ELSE max

\* ------------------------------------------------------------- Execute

\* Execute raises RuntimeError when subprocess.call's status is > 0.
Raises(rc) == rc > 0

\* A command does its work only when it ends with status 0, which it
\* cannot when the file it reads is missing.
CanExit(rc, input) == rc = 0 => input # Absent

\* ------------------------------------------------------------ placement

\* The exception the coordinate arithmetic of a location raises, in the
\* order the script evaluates it, or "none".
PlacementError(location, size_y) ==
  LET xy == Split(location)
  IN  IF ~IsInt(xy[1]) THEN "ValueError"
      ELSE IF ~IsInt(size_y) THEN "ValueError"
      ELSE IF Len(xy) < 2 THEN "IndexError"
      ELSE IF ~IsInt(xy[2]) THEN "ValueError"
      ELSE "none"

\* x = (int(xy[0]) / 2) - 32, the division rounding down.
PlaceX(location) == (ParseInt(Split(location)[1]) \div 2) - HalfSpot

\* y = (int(canvas_size_y) - (int(xy[1]) / 2)) - 32
PlaceY(location, size_y) ==
  (ParseInt(size_y) - (ParseInt(Split(location)[2]) \div 2)) - HalfSpot

\* "+%d" % v, or "%d" % v when v is negative: a sign and a magnitude.
Signed(v) == IF v < 0 THEN <<"-", -v>> ELSE <<"+", v>>

\* The offset convert reads back from one signed field of -geometry.
Offset(field) == IF field[1] = "-" THEN -field[2] ELSE field[2]

\* contribution = 1.0 - float(weight) / maxRepetitions * scale
Contribution(weight, max, factor) ==
  RSub(ROne, RMul(Rat(weight, max), factor))

\* if (contribution > 0.0): the location is stamped.
Stamped(contribution) == RLt(RZero, contribution)

\* Remaining with the iteration not advancing.
RemainingAll(keys, location) == keys

\* The keys still to iterate once location has been.
Remaining(keys, location) == keys \ {location}

\* ----------------------------------------------------------------- Init

\* GenerateHeatMap is entered with its arguments; the working directory
\* holds either nothing or what a previous run left.
Init ==
  /\ event_file \in EventFiles
  /\ canvas_size_x \in CanvasSizes
  /\ canvas_size_y \in CanvasSizes
  /\ scale \in Scales
  /\ spot \in SpotLevels
  /\ hdri \in BOOLEAN
  /\ pc = "aggregate"
  /\ pos = 0
  /\ uniqueLocations = <<>>
  /\ maxRepetitions = 0
  /\ pending = {}
  /\ ten_percent = 0
  /\ count = 0
  /\ percent = 0
  /\ \E left \in {Absent, Stale} :
       /\ empty_miff = left
       /\ full_miff = left
       /\ final_miff = left
       /\ heatmap_png = left
  /\ err = "none"
  /\ invoked = [canvas |-> 0, negate |-> 0, remap |-> 0, blend |-> 0]
  /\ visited = <<>>
  /\ stamps = <<>>
  /\ statuses = {}
  /\ divisors = {}

\* -------------------------------------------------------------- actions

\* One iteration of "for location in file".
ReadLine ==
  /\ pc = "aggregate"
  /\ pos < Len(event_file)
  /\ LET location == Key(event_file[pos + 1])
         counted == Count(uniqueLocations, location)
     IN  /\ uniqueLocations' = counted
         /\ maxRepetitions' = Hottest(maxRepetitions, counted[location])
  /\ pos' = pos + 1
  /\ UNCHANGED <<inputs, pc, loop, files, err, history>>

\* The file is exhausted: convert -size WxH pattern:gray100 empty.miff,
\* then the set-up of the stamping loop.
CreateCanvas ==
  /\ pc = "aggregate"
  /\ pos = Len(event_file)
  /\ \E rc \in ExitCodes :
       /\ invoked' = [invoked EXCEPT !.canvas = @ + 1]
       /\ statuses' = statuses \cup {rc}
       /\ IF Raises(rc)
          THEN /\ pc' = "failed"
               /\ err' = "RuntimeError"
               /\ UNCHANGED <<loop, files, visited, stamps>>
          ELSE /\ pc' = "composite"
               /\ empty_miff' = IF rc = 0 THEN White ELSE empty_miff
               /\ pending' = DOMAIN uniqueLocations
               /\ ten_percent' = Cardinality(DOMAIN uniqueLocations) \div 10
               /\ count' = 0
               /\ percent' = 0
               /\ visited' = [k \in DOMAIN uniqueLocations |-> 0]
               /\ stamps' = [k \in DOMAIN uniqueLocations |-> <<>>]
               /\ UNCHANGED <<full_miff, final_miff, heatmap_png, err>>
  /\ UNCHANGED <<inputs, aggregate, divisors>>

\* The progress report that ends an iteration of the stamping loop.
Progress ==
  /\ count' = IF count + 1 > ten_percent THEN 0 ELSE count + 1
  /\ percent' = IF count + 1 > ten_percent THEN percent + 10 ELSE percent

\* One iteration of "for location in uniqueLocations", in whatever order
\* the dict yields its keys.
Visit ==
  /\ pc = "composite"
  /\ \E location \in pending, rc \in ExitCodes :
       LET failure == PlacementError(location, canvas_size_y)
           weight == uniqueLocations[location]
       IN  /\ visited' = [visited EXCEPT ![location] = @ + 1]
           /\ IF failure # "none"
              THEN /\ pc' = "failed"
                   /\ err' = failure
                   /\ UNCHANGED <<loop, files, stamps, statuses, divisors>>
              ELSE IF maxRepetitions = 0
              THEN /\ pc' = "failed"
                   /\ err' = "ZeroDivisionError"
                   /\ divisors' = divisors \cup {maxRepetitions}
                   /\ UNCHANGED <<loop, files, stamps, statuses>>
              ELSE LET contribution == Contribution(weight, maxRepetitions, scale)
                       x_str == Signed(PlaceX(location))
                       y_str == Signed(PlaceY(location, canvas_size_y))
                   IN  /\ divisors' = divisors \cup {maxRepetitions}
                       /\ IF ~Stamped(contribution)
                          THEN /\ pending' = Remaining(pending, location)
                               /\ Progress
                               /\ UNCHANGED <<pc, err, files, stamps, statuses,
                                              ten_percent>>
                          ELSE /\ CanExit(rc, empty_miff)
                               /\ stamps' = [stamps EXCEPT ![location] =
                                               Append(@, contribution)]
                               /\ statuses' = statuses \cup {rc}
                               /\ IF Raises(rc)
                                  THEN /\ pc' = "failed"
                                       /\ err' = "RuntimeError"
                                       /\ UNCHANGED <<loop, files>>
                                  ELSE /\ empty_miff' =
                                            IF rc = 0
                                            THEN Composite(empty_miff,
                                                   Colorize(spot, contribution, hdri),
                                                   Offset(x_str), Offset(y_str), hdri)
                                            ELSE empty_miff
                                       /\ pending' = Remaining(pending, location)
                                       /\ Progress
                                       /\ UNCHANGED <<pc, err, ten_percent, full_miff,
                                                      final_miff, heatmap_png>>
  /\ UNCHANGED <<inputs, aggregate, invoked>>

\* The loop is over: convert empty.miff -negate full.miff
NegateCanvas ==
  /\ pc = "composite"
  /\ pending = {}
  /\ \E rc \in ExitCodes :
       /\ CanExit(rc, empty_miff)
       /\ invoked' = [invoked EXCEPT !.negate = @ + 1]
       /\ statuses' = statuses \cup {rc}
       /\ IF Raises(rc)
          THEN pc' = "failed" /\ err' = "RuntimeError" /\ UNCHANGED full_miff
          ELSE /\ pc' = "remap"
               /\ full_miff' = IF rc = 0 THEN Negate(empty_miff) ELSE full_miff
               /\ UNCHANGED err
  /\ UNCHANGED <<inputs, aggregate, loop, empty_miff, final_miff, heatmap_png,
                 visited, stamps, divisors>>

\* convert full.miff colors.png -fx 'v.p{0,u*v.h}' final.miff
RemapColors ==
  /\ pc = "remap"
  /\ \E rc \in ExitCodes :
       /\ CanExit(rc, full_miff)
       /\ invoked' = [invoked EXCEPT !.remap = @ + 1]
       /\ statuses' = statuses \cup {rc}
       /\ IF Raises(rc)
          THEN pc' = "failed" /\ err' = "RuntimeError" /\ UNCHANGED final_miff
          ELSE /\ pc' = "blend"
               /\ final_miff' = IF rc = 0 THEN Remap(full_miff) ELSE final_miff
               /\ UNCHANGED err
  /\ UNCHANGED <<inputs, aggregate, loop, empty_miff, full_miff, heatmap_png,
                 visited, stamps, divisors>>

\* composite -blend 40% final.miff level_image heatmap.png, then "Complete."
BlendBackground ==
  /\ pc = "blend"
  /\ \E rc \in ExitCodes :
       /\ CanExit(rc, final_miff)
       /\ invoked' = [invoked EXCEPT !.blend = @ + 1]
       /\ statuses' = statuses \cup {rc}
       /\ IF Raises(rc)
          THEN pc' = "failed" /\ err' = "RuntimeError" /\ UNCHANGED heatmap_png
          ELSE /\ pc' = "done"
               /\ heatmap_png' = IF rc = 0 THEN Blend(final_miff) ELSE heatmap_png
               /\ UNCHANGED err
  /\ UNCHANGED <<inputs, aggregate, loop, empty_miff, full_miff, final_miff,
                 visited, stamps, divisors>>

Next ==
  \/ ReadLine
  \/ CreateCanvas
  \/ Visit
  \/ NegateCanvas
  \/ RemapColors
  \/ BlendBackground

Spec == Init /\ [][Next]_vars

\* ------------------------------------------------------- derived values

RECURSIVE SumOfCounts(_)
SumOfCounts(locations) ==
  IF DOMAIN locations = {} THEN 0
  ELSE LET k == CHOOSE k \in DOMAIN locations : TRUE
       IN  locations[k]
             + SumOfCounts([j \in DOMAIN locations \ {k} |-> locations[j]])

\* The largest count stored, 0 for the empty dict.
MaxOfCounts(locations) ==
  IF DOMAIN locations = {} THEN 0
  ELSE CHOOSE m \in {locations[k] : k \in DOMAIN locations} :
         \A k \in DOMAIN locations : locations[k] <= m

\* The lines among the first n of the file whose text as read is k.
LinesEqual(k, n) == {i \in 1..n : event_file[i] = k}

\* A line without its terminator: the location it names.
Chomp(line) ==
  IF line # <<>> /\ line[Len(line)] = "\n"
  THEN SubSeq(line, 1, Len(line) - 1) ELSE line

\* The stamps issued so far.
RECURSIVE StampCount(_)
StampCount(issued) ==
  IF DOMAIN issued = {} THEN 0
  ELSE LET k == CHOOSE k \in DOMAIN issued : TRUE
       IN  Len(issued[k])
             + StampCount([j \in DOMAIN issued \ {k} |-> issued[j]])

\* ----------------------------------------------------------------- C1

\* C1: after every line of the aggregation loop the counts of
\* uniqueLocations sum to the number of lines consumed so far, and once the
\* loop is over that number is the number of lines of the file.
C1_SumOfCountsIsLinesRead ==
  /\ SumOfCounts(uniqueLocations) = pos
  /\ pc # "aggregate" => pos = Len(event_file)

C1_Witness ==
  /\ pc = "composite"
  /\ Len(event_file) = MaxLines
  /\ Cardinality(DOMAIN uniqueLocations) = 2

\* ----------------------------------------------------------------- C2

\* C2: after every iteration of the aggregation loop every stored count is
\* at least 1, maxRepetitions is the largest stored count (0 exactly when
\* no line has been read) and some location attains it.
C2_MaxIsLargestCount ==
  /\ \A k \in DOMAIN uniqueLocations : uniqueLocations[k] >= 1
  /\ maxRepetitions = MaxOfCounts(uniqueLocations)
  /\ maxRepetitions = 0 <=> pos = 0
  /\ \A k \in DOMAIN uniqueLocations : maxRepetitions >= uniqueLocations[k]
  /\ pos > 0 => \E k \in DOMAIN uniqueLocations :
                  uniqueLocations[k] = maxRepetitions

C2_Witness ==
  /\ pc = "done"
  /\ statuses = {0}
  /\ maxRepetitions = 2
  /\ \E k \in DOMAIN uniqueLocations : uniqueLocations[k] = 1

\* ----------------------------------------------------------------- C3

\* Every line names one and the same x,y.
AllSameLocation ==
  /\ \A i \in 1..Len(event_file) :
       PlacementError(event_file[i], canvas_size_y) = "none"
  /\ \A i, j \in 1..Len(event_file) :
       Chomp(event_file[i]) = Chomp(event_file[j])

AllSameLine ==
  \A i, j \in 1..Len(event_file) : event_file[i] = event_file[j]

OneKeyCountingEveryLine ==
  /\ Cardinality(DOMAIN uniqueLocations) = 1
  /\ \A k \in DOMAIN uniqueLocations : uniqueLocations[k] = Len(event_file)
  /\ maxRepetitions = Len(event_file)

\* The keys are the lines as read, each counting the lines read so far
\* that are literally it.
KeysAreRawLines ==
  /\ DOMAIN uniqueLocations = {event_file[i] : i \in 1..pos}
  /\ \A k \in DOMAIN uniqueLocations :
       uniqueLocations[k] = Cardinality(LinesEqual(k, pos))

StageOrder ==
  { <<"aggregate", "composite">>, <<"composite", "remap">>,
    <<"remap", "blend">>, <<"blend", "done">> }

Stages == {"aggregate", "composite", "remap", "blend", "done", "failed"}

\* What holds of the state a step ends in.
C4_Stages ==
  /\ pc' \in Stages
  /\ pc' # pc => \/ <<pc, pc'>> \in StageOrder
                 \/ pc' = "failed"
  /\ pc \in {"done", "failed"} => pc' = pc
  /\ invoked'.canvas = (IF pc' = "aggregate" THEN 0 ELSE 1)
  /\ pc' \in {"aggregate", "composite"} => invoked'.negate = 0
  /\ pc' \in {"remap", "blend", "done"} => invoked'.negate = 1
  /\ pc' \in {"aggregate", "composite", "remap"} => invoked'.remap = 0
  /\ pc' \in {"blend", "done"} => invoked'.remap = 1
  /\ invoked'.blend = (IF pc' = "done" THEN 1 ELSE 0) \/ pc' = "failed"
  /\ \A stage \in DOMAIN invoked' : invoked'[stage] <= 1
  /\ \A k \in DOMAIN visited' : visited'[k] <= 1 /\ Len(stamps'[k]) <= 1
  /\ pc' \in {"remap", "blend", "done"} =>
       /\ DOMAIN visited' = DOMAIN uniqueLocations'
       /\ \A k \in DOMAIN visited' : visited'[k] = 1
  /\ StampCount(stamps') # StampCount(stamps) =>
       /\ pc = "composite"
       /\ invoked.canvas = 1
       /\ invoked.negate = 0
       /\ StampCount(stamps') = StampCount(stamps) + 1

\* C4: the stages follow one another in the fixed order aggregate, canvas,
\* composite, negate, remap, blend, done, each entered once and never
\* again; every unique location is visited exactly once and stamped at
\* most once, and stamps are issued only between the creation of the
\* canvas and the negate step.
C4_LinearPipeline == [][C4_Stages]_vars

\* A run without failures in which the hottest location is skipped and a
\* cooler one is stamped.
C4_Witness ==
  /\ pc = "done"
  /\ statuses = {0}
  /\ scale = ROne
  /\ \E k \in DOMAIN stamps : Len(stamps[k]) = 1
  /\ \E k \in DOMAIN stamps : Len(stamps[k]) = 0

\* ----------------------------------------------------------------- C5

\* C5: once an external operation has ended with a status other than
\* success the run is in the Failed state, with the RuntimeError naming
\* the command: nothing later is invoked, heatmap.png is not blended and
\* "Complete." is not printed.
C5_FailureAborts ==
  (\E rc \in statuses : rc # 0) => pc = "failed" /\ err = "RuntimeError"

\* ----------------------------------------------------------------- C6

\* Where the stamping loop came to its decision for key k.
Decided(k) ==
  /\ k \in DOMAIN visited
  /\ visited[k] >= 1
  /\ PlacementError(k, canvas_size_y) = "none"
  /\ maxRepetitions # 0

\* 1 - (weight / maxRepetitions * scale) > 0
WhiteningPositive(k) ==
  RLt(RZero,
      RSub(ROne, RMul(Rat(uniqueLocations[k], maxRepetitions), scale)))

\* The first half of C6: a location is stamped exactly when
\* 1 - (weight / maxRepetitions * scale) > 0.
StampedIffPositive ==
  \A k \in DOMAIN uniqueLocations :
    Decided(k) => (Len(stamps[k]) = 1 <=> WhiteningPositive(k))

\* C6: a location is stamped exactly when
\* 1 - (weight / maxRepetitions * scale) > 0, and every stamp issued
\* carries a whitening factor greater than 0 and at most 1.
C6_StampsAreValidBlends ==
  /\ StampedIffPositive
  /\ \A k \in DOMAIN stamps : \A i \in 1..Len(stamps[k]) :
       RLt(RZero, stamps[k][i]) /\ RLe(stamps[k][i], ROne)

\* ----------------------------------------------------------------- C7

\* C7: weight is never divided by zero; and an empty event file leaves
\* uniqueLocations empty and maxRepetitions 0, divides nothing, stamps
\* nothing, stops only if an external operation fails, and ends with the
\* heat map of the blank canvas.
C7_NeverDividesByZero ==
  /\ err # "ZeroDivisionError"
  /\ \A d \in divisors : d >= 1
  /\ event_file = <<>> =>
       /\ DOMAIN uniqueLocations = {}
       /\ maxRepetitions = 0
       /\ divisors = {}
       /\ StampCount(stamps) = 0
       /\ pc = "failed" => err = "RuntimeError"
       /\ (pc = "done" /\ statuses = {0}) =>
            heatmap_png = Blend(Remap(Negate(White)))

C7_Witness ==
  /\ event_file = <<>>
  /\ pc = "done"
  /\ statuses = {0}

\* ----------------------------------------------------------------- C8

\* C8: for the scale and the maxRepetitions of the run, the contribution
\* weight / maxRepetitions * scale does not decrease as the count grows:
\* the whitening factor 1 - contribution does not increase.
C8_ContributionMonotonic ==
  maxRepetitions >= 1 =>
    \A w1, w2 \in 1..maxRepetitions :
      w1 <= w2 =>
        /\ RLe(RMul(Rat(w1, maxRepetitions), scale),
               RMul(Rat(w2, maxRepetitions), scale))
        /\ RLe(Contribution(w2, maxRepetitions, scale),
               Contribution(w1, maxRepetitions, scale))

\* ----------------------------------------------------------------- C9

\* The counts of the file, computed from the file alone.
CountsOf(lines) ==
  [k \in {lines[i] : i \in 1..Len(lines)} |->
     Cardinality({i \in 1..Len(lines) : lines[i] = k})]

\* The canvas after the stamps of the keys of todo, taken in an order
\* that depends on nothing but the keys.
RECURSIVE StampAll(_, _, _)
StampAll(canvas, todo, counts) ==
  IF todo = {} THEN canvas
  ELSE LET k == CHOOSE k \in todo : TRUE
           c == Contribution(counts[k], MaxOfCounts(counts), scale)
       IN  StampAll(
             IF Stamped(c)
             THEN Composite(canvas, Colorize(spot, c, hdri),
                            PlaceX(k), PlaceY(k, canvas_size_y), hdri)
             ELSE canvas,
             todo \ {k}, counts)

\* heatmap.png as the inputs alone determine it: from a blank canvas.
OutputOfInputs ==
  Blend(Remap(Negate(
    StampAll(White, DOMAIN CountsOf(event_file), CountsOf(event_file)))))

\* C9: the output of a completed run is a function of its inputs: it
\* depends neither on what an earlier run left in empty.miff, full.miff,
\* final.miff and heatmap.png nor on the order the unique locations are
\* iterated in, so that two runs on the same inputs write the same image.
C9_OutputDeterminedByInputs ==
  pc = "done" => heatmap_png = OutputOfInputs

\* The same of the runs in which every command exits with status 0.
OutputDeterminedWhenAllSucceed ==
  (pc = "done" /\ statuses \subseteq {0}) => heatmap_png = OutputOfInputs

\* ----------------------------------------------------------------- C10

\* Whether the stamp the step issued for its location covers pixel p.
UnderStamp(p) ==
  \E k \in pending \ pending' :
    Covers(PlaceX(k), PlaceY(k, canvas_size_y), p)

InUnitRange(v) == RLe(RZero, v) /\ RLe(v, ROne)

C10_Darkens ==
  (pc = "composite" /\ empty_miff # Absent) =>
    \A p \in Pixels :
      /\ RLe(empty_miff'[p], empty_miff[p])
      /\ InUnitRange(empty_miff'[p])
      /\ ~UnderStamp(p) => empty_miff'[p] = empty_miff[p]

\* C10: through the composite stage a stamp leaves every pixel of the
\* canvas at or below its value before the stamp and within [0, 1], and
\* leaves the pixels outside the marker's footprint as they were.
C10_CanvasOnlyDarkens == [][C10_Darkens]_vars

\* The same of the runs whose scale is not negative.
DarkensWhenScaleNotNegative ==
  [][RLe(RZero, scale) => C10_Darkens]_vars

====
